---- MODULE Spec2Model ----
(***************************************************************************)
(* WhatsApp chat analyzer: the log parser (preprocessor.preprocess) and    *)
(* the metrics functions (helpers.py, app.calculate_statistics).           *)
(*                                                                         *)
(* A chat export is a sequence of lines.  A line is a record whose fields  *)
(* are the pieces the two regular expressions of preprocess look at: the   *)
(* date and time strings (kept as their digits and digit counts), the      *)
(* sender text (a sequence of text tokens, " " and "\n" being whitespace)  *)
(* and the message text (a sequence of words).  A nullable value (NaT,     *)
(* NaN, None) is the empty sequence, a present value v is <<v>>.           *)
(***************************************************************************)
EXTENDS Integers, Sequences, FiniteSets, TLC

\* ------------------------------------------------------------------ bounds
MaxLines == 2

MaxMsgs == 6

\* ------------------------------------------------------------ small helpers
Null == <<>>

Some(v) == <<v>>

IsNull(x) == x = <<>>

Val(x) == x[1]

Range(s) == {s[i] : i \in 1..Len(s)}

SeqsUpTo(S, n) == UNION {[1..k -> S] : k \in 0..n}

RECURSIVE SumSeq(_)
SumSeq(s) == IF s = <<>> THEN 0 ELSE Head(s) + SumSeq(Tail(s))

\* Python: sub in s, for sequences of tokens
Contains(s, sub) ==
    \E i \in 1..(Len(s) - Len(sub) + 1) : SubSeq(s, i, i + Len(sub) - 1) = sub

\* -------------------------------------------------------- the input strings
\* A date string "d/m/y": the numbers and how many digits each is written with.
DateStr(d, dd, m, md, y, yd) ==
    [d |-> d, dd |-> dd, m |-> m, md |-> md, y |-> y, yd |-> yd]

\* A time string "h:mi", then an optional space, then an optional AM/PM.
TimeStr(h, hd, mi, sp, mer) ==
    [h |-> h, hd |-> hd, mi |-> mi, mid |-> 2, sp |-> sp, mer |-> mer]

Date_5_1_2023 == DateStr(5, 1, 1, 1, 2023, 4)

Date_6_1_2023 == DateStr(6, 1, 1, 1, 2023, 4)

Date_5_1_23 == DateStr(5, 1, 1, 1, 23, 2)

Date_31_2_2023 == DateStr(31, 2, 2, 1, 2023, 4)

Dates == {Date_5_1_2023, Date_6_1_2023, Date_5_1_23, Date_31_2_2023}

Time_10_15_AM == TimeStr(10, 2, 15, TRUE, "AM")

Time_9_00_AM == TimeStr(9, 1, 0, TRUE, "AM")

Time_10_15AM == TimeStr(10, 2, 15, FALSE, "AM")

Time_13_15_PM == TimeStr(13, 2, 15, TRUE, "PM")

Time_22_15 == TimeStr(22, 2, 15, FALSE, "")

Time_09_05 == TimeStr(9, 2, 5, FALSE, "")

Time_9_05 == TimeStr(9, 1, 5, FALSE, "")

Alice == <<"Alice">>

Bob == <<"Bob">>

Blank == <<" ">>

Hello == <<"Hello!">>

Media == <<"<Media", "omitted>">>

\* "<date>, <time> - <user>: <msg>"
MsgLine(date, time, user, msg) ==
    [kind |-> "msg", date |-> date, time |-> time, user |-> user, msg |-> msg]

\* "<date>, <time> - <user>" : a prefixed line with no colon after the dash
SysLine(date, time, txt) ==
    [kind |-> "sys", date |-> date, time |-> time, user |-> txt]

\* "<msg>" : a line with no prefix and no colon
ContLine(txt) == [kind |-> "cont", msg |-> txt]

\* "<user>: <msg>" : a line with no prefix and one colon
ColonLine(head, txt) == [kind |-> "colon", user |-> head, msg |-> txt]

\* the lines a chat export of the model is made of
Lines ==
    {MsgLine(d, Time_10_15_AM, Alice, Hello) : d \in Dates}
    \cup {MsgLine(d, Time_9_00_AM, Bob, Hello) :
              d \in {Date_5_1_2023, Date_6_1_2023, Date_5_1_23}}
    \cup {MsgLine(d, Time_22_15, Alice, Hello) : d \in {Date_5_1_2023, Date_5_1_23}}
    \cup {MsgLine(Date_5_1_2023, Time_13_15_PM, Alice, Hello),
          MsgLine(Date_5_1_2023, Time_10_15AM, Bob, Hello),
          MsgLine(Date_5_1_2023, Time_09_05, Bob, Hello),
          MsgLine(Date_5_1_2023, Time_9_05, Bob, Hello),
          MsgLine(Date_6_1_2023, Time_22_15, Bob, Media),
          MsgLine(Date_5_1_2023, Time_10_15_AM, Blank, Hello),
          MsgLine(Date_5_1_2023, Time_22_15, Blank, Hello),
          SysLine(Date_5_1_2023, Time_10_15_AM, <<"Alice", " ", "joined">>),
          ContLine(<<"see", "you">>),
          ColonLine(<<"note">>, <<"www.cake.com">>)}

Texts == SeqsUpTo(Lines, MaxLines)

\* ------------------------------------------------------------- preprocess
\* \d{1,2}/\d{1,2}/\d{2,4}
MatchesDate(date) == date.dd \in 1..2 /\ date.md \in 1..2 /\ date.yd \in 2..4

\* \d{1,2}:\d{2}\s?[APap][Mm]
MatchesTime12(time) ==
    time.hd \in 1..2 /\ time.mid = 2 /\ time.mer \in {"AM", "PM", "am", "pm"}

\* \d{2}:\d{2}, directly followed by " - "
MatchesTime24(time) == time.hd = 2 /\ time.mid = 2 /\ time.mer = "" /\ ~time.sp

pattern_12hr == "12hr"

pattern_24hr == "24hr"

MatchesPrefix(pattern, line) ==
    /\ line.kind \in {"msg", "sys"}
    /\ MatchesDate(line.date)
    /\ IF pattern = pattern_12hr THEN MatchesTime12(line.time)
                                 ELSE MatchesTime24(line.time)

\* the words of a line written out as text tokens, a space between two words
RECURSIVE Spaced(_)
Spaced(ws) ==
    IF Len(ws) <= 1 THEN ws ELSE <<Head(ws), " ">> \o Spaced(Tail(ws))

\* ([^:]+) runs over line ends up to the first colon of the text: from a
\* prefixed line without a colon it takes the following colon-free lines and
\* stops in the first line that has a colon; that colon must be followed by a
\* space, which the colon inside a time string of a prefixed line is not.
RECURSIVE SenderFrom(_, _, _)
SenderFrom(data, j, acc) ==
    IF j > Len(data) THEN Null
    ELSE IF data[j].kind = "cont"
         THEN SenderFrom(data, j + 1, acc \o <<"\n">> \o Spaced(data[j].msg))
    ELSE IF data[j].kind = "colon"
         THEN Some([User |-> acc \o <<"\n">> \o data[j].user, Message |-> data[j].msg])
    ELSE Null

\* the match of the pattern that starts at line i, if there is one; (.+) ends
\* at the end of the line, "." matching no line break
MatchAt(pattern, data, i) ==
    IF ~MatchesPrefix(pattern, data[i]) THEN Null
    ELSE IF data[i].kind = "msg"
         THEN IF Len(data[i].user) >= 1 /\ Len(data[i].msg) >= 1
              THEN Some([Date |-> data[i].date, Time |-> data[i].time,
                         User |-> data[i].user, Message |-> data[i].msg])
              ELSE Null
    ELSE LET r == SenderFrom(data, i + 1, data[i].user)
         IN  IF IsNull(r) THEN Null
             ELSE Some([Date |-> data[i].date, Time |-> data[i].time,
                        User |-> Val(r).User, Message |-> Val(r).Message])

\* re.findall(pattern, data): the matches in text order
RECURSIVE FindAllFrom(_, _, _)
FindAllFrom(pattern, data, i) ==
    IF i > Len(data) THEN <<>>
    ELSE MatchAt(pattern, data, i) \o FindAllFrom(pattern, data, i + 1)

findall(pattern, data) == FindAllFrom(pattern, data, 1)

\* calendar
IsLeap(y) == (y % 4 = 0 /\ y % 100 # 0) \/ y % 400 = 0

DaysInMonth(m, y) ==
    IF m = 2 THEN (IF IsLeap(y) THEN 29 ELSE 28)
    ELSE IF m \in {4, 6, 9, 11} THEN 30 ELSE 31

RECURSIVE DaysBeforeMonth(_, _)
DaysBeforeMonth(m, y) ==
    IF m <= 1 THEN 0 ELSE DaysInMonth(m - 1, y) + DaysBeforeMonth(m - 1, y)

\* proleptic Gregorian ordinal, 1/1/0001 being day 1
ToOrdinal(y, m, d) ==
    365 * (y - 1) + ((y - 1) \div 4) - ((y - 1) \div 100) + ((y - 1) \div 400)
    + DaysBeforeMonth(m, y) + d

days_order ==
    <<"Monday", "Tuesday", "Wednesday", "Thursday", "Friday", "Saturday", "Sunday">>

month_names ==
    <<"January", "February", "March", "April", "May", "June", "July", "August",
      "September", "October", "November", "December">>

day_name(ts) == days_order[((ToOrdinal(ts.year, ts.month, ts.day) + 6) % 7) + 1]

month_name(ts) == month_names[ts.month]

ValidDate(d, m, y) == m \in 1..12 /\ d >= 1 /\ d <= DaysInMonth(m, y)

\* pd.to_datetime(Date + " " + Time, format="%d/%m/%Y %I:%M %p", errors="coerce"):
\* %Y is four digits, %I is 1..12, the blank of the format is one or more
\* white space characters, and a string that does not match gives NaT
Strptime12(date, time) ==
    IF /\ date.yd = 4
       /\ ValidDate(date.d, date.m, date.y)
       /\ time.h \in 1..12
       /\ time.mi \in 0..59
       /\ time.sp
       /\ time.mer \in {"AM", "PM", "am", "pm"}
    THEN Some([year |-> date.y, month |-> date.m, day |-> date.d,
               hour |-> (time.h % 12) + (IF time.mer \in {"PM", "pm"} THEN 12 ELSE 0),
               minute |-> time.mi])
    ELSE Null

\* pd.to_datetime(Date + " " + Time, format="%d/%m/%Y %H:%M", errors="coerce")
Strptime24(date, time) ==
    IF /\ date.yd = 4
       /\ ValidDate(date.d, date.m, date.y)
       /\ time.h \in 0..23
       /\ time.mi \in 0..59
       /\ time.mer = ""
       /\ ~time.sp
    THEN Some([year |-> date.y, month |-> date.m, day |-> date.d,
               hour |-> time.h, minute |-> time.mi])
    ELSE Null

IsSpace(tok) == tok \in {" ", "\n"}

\* str.strip()
RECURSIVE LStrip(_)
LStrip(s) == IF s # <<>> /\ IsSpace(Head(s)) THEN LStrip(Tail(s)) ELSE s

RECURSIVE RStrip(_)
RStrip(s) ==
    IF s # <<>> /\ IsSpace(s[Len(s)]) THEN RStrip(SubSeq(s, 1, Len(s) - 1)) ELSE s

Strip(s) == RStrip(LStrip(s))

\* the filter without the strip: df = df[df["User"] != ""]
KeepsUser_NoStrip(user) == user # <<>>

\* df = df[df["User"].str.strip() != ""]
KeepsUser(user) == Strip(user) # <<>>

\* the five derived columns, NaN where Date-Time is NaT
WithDerived(r) ==
    [Date |-> r.Date, Time |-> r.Time, User |-> r.User, Message |-> r.Message,
     DateTime |-> r.DateTime,
     year |-> IF IsNull(r.DateTime) THEN Null ELSE Some(Val(r.DateTime).year),
     month |-> IF IsNull(r.DateTime) THEN Null ELSE Some(month_name(Val(r.DateTime))),
     day |-> IF IsNull(r.DateTime) THEN Null ELSE Some(day_name(Val(r.DateTime))),
     hour |-> IF IsNull(r.DateTime) THEN Null ELSE Some(Val(r.DateTime).hour),
     minute |-> IF IsNull(r.DateTime) THEN Null ELSE Some(Val(r.DateTime).minute)]

FullColumns ==
    {"Date", "Time", "User", "Message", "Date-Time", "year", "month", "day", "hour",
     "minute"}

EmptyColumns == {"Date-Time", "User", "Message"}

Frame(matches, pattern) ==
    [i \in 1..Len(matches) |->
        [Date |-> matches[i].Date, Time |-> matches[i].Time,
         User |-> matches[i].User, Message |-> matches[i].Message,
         DateTime |-> IF pattern = pattern_12hr
                      THEN Strptime12(matches[i].Date, matches[i].Time)
                      ELSE Strptime24(matches[i].Date, matches[i].Time)]]

KeepRow(r) == KeepsUser(r.User)

Finish(rows) ==
    LET kept == SelectSeq(rows, KeepRow)
    IN  [columns |-> FullColumns, rows |-> [i \in 1..Len(kept) |-> WithDerived(kept[i])]]

\* the two branches in the other order: the 24-hour matches first
ChosenPattern_24First(matches_12hr, matches_24hr) ==
    IF matches_24hr # <<>> THEN pattern_24hr
    ELSE IF matches_12hr # <<>> THEN pattern_12hr
    ELSE "none"

\* which pattern's matches preprocess builds the frame from
ChosenPattern(matches_12hr, matches_24hr) ==
    IF matches_12hr # <<>> THEN pattern_12hr
    ELSE IF matches_24hr # <<>> THEN pattern_24hr
    ELSE "none"

preprocess(data) ==
    LET matches_12hr == findall(pattern_12hr, data)
        matches_24hr == findall(pattern_24hr, data)
        chosen == ChosenPattern(matches_12hr, matches_24hr)
    IN  IF chosen = pattern_12hr THEN Finish(Frame(matches_12hr, pattern_12hr))
        ELSE IF chosen = pattern_24hr THEN Finish(Frame(matches_24hr, pattern_24hr))
        ELSE [columns |-> EmptyColumns, rows |-> <<>>]

empty(df) == df.rows = <<>>

\* ---------------------------------------------------------------- metrics
\* a value returned, or the exception a call ends in
Returned(v) == [raised |-> "", value |-> v]

Raised(e) == [raised |-> e, value |-> <<>>]

Column(rows, name) == [i \in 1..Len(rows) |-> rows[i][name]]

Overall == <<"Overall">>

\* app.display_analysis: user_df = df if selected_user == "Overall" else df[df["User"] == selected_user]
user_df_of(df, sel) ==
    IF sel = Overall THEN df
    ELSE LET IsSel(r) == r.User = sel
         IN  [columns |-> df.columns, rows |-> SelectSeq(df.rows, IsSel)]

user_list(df) == {Overall} \cup {df.rows[i].User : i \in 1..Len(df.rows)}

\* sum(len(msg.split()) for msg in messages)
count_words(messages) == SumSeq([i \in 1..Len(messages) |-> Len(messages[i])])

\* sum(1 for msg in messages if "<Media omitted>" in msg)
count_media_messages(messages) ==
    Cardinality({i \in 1..Len(messages) : Contains(messages[i], Media)})

\* the words of the model that url_pattern finds a match in
LinkWords == {"www.cake.com"}

count_links(messages) ==
    Cardinality({i \in 1..Len(messages) : Range(messages[i]) \cap LinkWords # {}})

\* df.iloc[0]['Date'] if not df.empty else "N/A"
get_first_message_date(df) == IF ~empty(df) THEN Some(df.rows[1].Date) ELSE <<"N/A">>

\* len(msg): the characters of the words and one blank between two words
WordLen(w) ==
    CASE w = "Hello!" -> 6
      [] w = "<Media" -> 6
      [] w = "omitted>" -> 8
      [] w = "www.cake.com" -> 12
      [] OTHER -> 1

MsgLen(msg) == SumSeq([i \in 1..Len(msg) |-> WordLen(msg[i])]) + (Len(msg) - 1)

\* max(messages, key=len) if messages.any() else "": the first of the longest
get_longest_message(messages) ==
    IF messages = <<>> THEN <<>>
    ELSE LET i == CHOOSE k \in 1..Len(messages) :
                    /\ \A j \in 1..Len(messages) : MsgLen(messages[j]) <= MsgLen(messages[k])
                    /\ \A j \in 1..(k - 1) : MsgLen(messages[j]) < MsgLen(messages[k])
         IN  messages[i]

\* TextBlob(msg).sentiment.polarity, of the messages of the model: none of their
\* words is in the lexicon
Polarity(msg) == 0

get_sentiment(messages) ==
    LET Bucket(msg) == IF Polarity(msg) > 0 THEN "Positive"
                       ELSE IF Polarity(msg) < 0 THEN "Negative" ELSE "Neutral"
    IN  [b \in {"Positive", "Negative", "Neutral"} |->
            Cardinality({i \in 1..Len(messages) : Bucket(messages[i]) = b})]

offensive_words ==
    {"nude", "sex", "fuck", "bitch", "asshole", "porn", "fool", "dick", "boobs", "slut",
     "madharchod", "nigger", "nigga", "cunt", "pussy", "lund", "lora", "chode", "mc",
     "ma ka bhosda", "gandmara"}

\* str.lower()
Lower(w) ==
    CASE w = "Hello!" -> "hello!"
      [] w = "<Media" -> "<media"
      [] OTHER -> w

\* Counter(word.lower() for msg in messages for word in msg.split() if word.lower() in offensive_words)
detect_offensive_words(messages) ==
    LET hits == {<<i, j>> \in (1..Len(messages)) \X (1..3) :
                    j <= Len(messages[i]) /\ Lower(messages[i][j]) \in offensive_words}
        words == {Lower(messages[h[1]][h[2]]) : h \in hits}
    IN  [w \in words |-> Cardinality({h \in hits : Lower(messages[h[1]][h[2]]) = w})]

\* Counter of the characters c of the messages with emoji.is_emoji(c): the
\* words of the model hold none
EmojisOf(w) == <<>>

extract_emojis(messages) ==
    LET hits == {<<i, j, k>> \in (1..Len(messages)) \X (1..3) \X (1..1) :
                    j <= Len(messages[i]) /\ k <= Len(EmojisOf(messages[i][j]))}
        chars == {EmojisOf(messages[h[1]][h[2]])[h[3]] : h \in hits}
    IN  [c \in chars |->
            Cardinality({h \in hits : EmojisOf(messages[h[1]][h[2]])[h[3]] = c})]

\* the number of rows of each User
UserCounts(rows) ==
    [u \in {rows[i].User : i \in 1..Len(rows)} |->
        Cardinality({i \in 1..Len(rows) : rows[i].User = u})]

MaxCount(counts, U) == CHOOSE n \in {counts[u] : u \in U} : \A u \in U : counts[u] <= n

\* the first k entries of counts sorted by descending count.  Series.sort_values
\* sorts with kind="quicksort", which keeps no order among equal counts: every
\* order of the entries of one count is an outcome.
RECURSIVE Rankings(_, _, _)
Rankings(counts, U, k) ==
    IF k = 0 \/ U = {} THEN {<<>>}
    ELSE UNION {{<<[User |-> u, Count |-> counts[u]]>> \o t :
                     t \in Rankings(counts, U \ {u}, k - 1)} :
                u \in {v \in U : counts[v] = MaxCount(counts, U)}}

\* nlargest(5)
TopN == 5

\* value_counts() with no nlargest(5)
get_top_users_NoCut(df) ==
    LET counts == UserCounts(df.rows)
    IN  Rankings(counts, DOMAIN counts, Cardinality(DOMAIN counts))

\* df['User'].value_counts().nlargest(5): the set of the results it can give
get_top_users(df) ==
    LET counts == UserCounts(df.rows)
    IN  Rankings(counts, DOMAIN counts, TopN)

RoundHalfEven(n, d) ==
    LET q == n \div d
        r == n % d
    IN  IF 2 * r < d THEN q
        ELSE IF 2 * r > d THEN q + 1
        ELSE IF q % 2 = 0 THEN q ELSE q + 1

\* day_counts / total_messages * 100, rounded to 2 decimals, in hundredths of a
\* percent; 0 / 0 is NaN
Percentage(count, total_messages) ==
    IF total_messages = 0 THEN Null ELSE Some(RoundHalfEven(count * 10000, total_messages))

\* df['day'] of a frame without that column raises KeyError; value_counts of the
\* categorical column counts no NaN
analyze_active_days(df) ==
    IF "day" \notin df.columns THEN Raised("KeyError")
    ELSE LET day_counts ==
                 [i \in 1..7 |->
                     Cardinality({k \in 1..Len(df.rows) : df.rows[k].day = Some(days_order[i])})]
             total_messages == SumSeq(day_counts)
             day_percentages == [i \in 1..7 |-> Percentage(day_counts[i], total_messages)]
         IN  Returned([day_counts |-> day_counts, day_percentages |-> day_percentages])

\* one date string read by pd.to_datetime(..., dayfirst=True) on its own: day
\* and month change places when only that gives a month, a 2-digit year is
\* of this century
ParseDayFirst(date) ==
    LET y == IF date.yd = 2 THEN 2000 + date.y ELSE date.y
    IN  IF ValidDate(date.d, date.m, y) THEN Some(ToOrdinal(y, date.m, date.d))
        ELSE IF date.m > 12 /\ ValidDate(date.m, date.d, y)
             THEN Some(ToOrdinal(y, date.d, date.m))
        ELSE Null

\* one date string read with the format guessed from another one
ParseAs(date, first) ==
    LET y == IF date.yd = 2 THEN 2000 + date.y ELSE date.y
    IN  IF date.yd = first.yd /\ ValidDate(date.d, date.m, y)
        THEN Some(ToOrdinal(y, date.m, date.d)) ELSE Null

\* pd.to_datetime(df['Date'], errors='coerce', dayfirst=True) reads the date
\* strings, not Date-Time.  No format is given: pandas 1 reads each string on
\* its own, pandas 2 guesses the format from the first string and reads every
\* string with it, and reads each on its own when it can guess none.
ParseModes == {"each", "guessed"}

ParseDates(rows, mode) ==
    [i \in 1..Len(rows) |->
        IF mode = "each" \/ IsNull(ParseDayFirst(rows[1].Date))
        THEN ParseDayFirst(rows[i].Date)
        ELSE ParseAs(rows[i].Date, rows[1].Date)]

\* df.sort_values('Date') then groupby('date_only')['User'].first(): Date holds
\* no time of day and the sort (kind="quicksort") keeps no order among the rows
\* of one date, so the first row of a date is any row of that date.  A pick
\* names, for every date, the row that comes first.
Picks(dates) ==
    LET days == {Val(dates[i]) : i \in {k \in 1..Len(dates) : ~IsNull(dates[k])}}
    IN  {f \in [days -> 1..Len(dates)] : \A d \in days : dates[f[d]] = Some(d)}

\* first_messages['User'].value_counts(): a row per credited User, by
\* descending Count
StarterCounts(rows, pick) ==
    LET users == {rows[pick[d]].User : d \in DOMAIN pick}
        counts == [u \in users |-> Cardinality({d \in DOMAIN pick : rows[pick[d]].User = u})]
    IN  Rankings(counts, users, Cardinality(users))

\* the set of the results get_conversation_starters can give
get_conversation_starters(df) ==
    IF empty(df) THEN {<<>>}
    ELSE UNION {StarterCounts(df.rows, pick) :
                    pick \in UNION {Picks(ParseDates(df.rows, mode)) : mode \in ParseModes}}

\* the module-level names of helpers.py, which app.py imports with *
helpers_names ==
    {"GraphStyler", "count_words", "detect_offensive_words", "count_media_messages",
     "count_links", "get_first_message_date", "get_longest_message", "get_sentiment",
     "get_top_users", "extract_emojis", "analyze_active_days",
     "get_conversation_starters"}

\* the functions calculate_statistics calls, in the order of its dict display
called_names ==
    <<"count_words", "count_media_messages", "count_links", "get_first_message_date",
      "get_longest_message", "get_sentiment", "detect_offensive_words",
      "get_top_users", "get_conversation_starters", "get_last_message_date">>

\* app.calculate_statistics: the set of its outcomes.  A call of a name that
\* no module defines raises NameError and the function returns no dict.
calculate_statistics(user_df, df) ==
    IF \E i \in 1..Len(called_names) : called_names[i] \notin helpers_names
    THEN {Raised("NameError")}
    ELSE {Returned([Total_Messages |-> Len(user_df.rows),
                    Total_Words |-> count_words(Column(user_df.rows, "Message")),
                    Media_Messages |-> count_media_messages(Column(user_df.rows, "Message")),
                    Links_Shared |-> count_links(Column(user_df.rows, "Message")),
                    First_Message_Date |-> get_first_message_date(df),
                    Longest_Message |-> get_longest_message(Column(user_df.rows, "Message")),
                    Sentiment |-> get_sentiment(Column(user_df.rows, "Message")),
                    Offensive_Words |-> detect_offensive_words(Column(user_df.rows, "Message")),
                    Top_Users |-> top,
                    Conversation_Starters |-> starters]) :
              top \in get_top_users(df), starters \in get_conversation_starters(df)}

\* ------------------------------------------------------------------ state
VARIABLES data, df, pc, op, selected_user, result

vars == <<data, df, pc, op, selected_user, result>>

NoFrame == [columns |-> {}, rows |-> <<>>]

Init ==
    /\ data \in Texts
    /\ df = NoFrame
    /\ pc = "uploaded"
    /\ op = "none"
    /\ selected_user = Overall
    /\ result = Returned(<<>>)

\* app.main: df = preprocessor.preprocess(data)
Preprocess ==
    /\ pc = "uploaded"
    /\ df' = preprocess(data)
    /\ pc' = "parsed"
    /\ UNCHANGED <<data, op, selected_user, result>>

\* One analysis of the parsed timeline: a metric function of helpers.py or
\* app.calculate_statistics applied to it (the timeline is not changed by it).
\* stats = calculate_statistics(user_df, df)
CalculateStatistics ==
    /\ pc = "parsed"
    /\ \E sel \in user_list(df) :
          /\ selected_user' = sel
          /\ result' \in calculate_statistics(user_df_of(df, sel), df)
    /\ op' = "calculate_statistics"
    /\ pc' = "done"
    /\ UNCHANGED <<data, df>>

\* day_counts, day_percentages = analyze_active_days(user_df)
AnalyzeActiveDays ==
    /\ pc = "parsed"
    /\ \E sel \in user_list(df) :
          /\ selected_user' = sel
          /\ result' = analyze_active_days(user_df_of(df, sel))
    /\ op' = "analyze_active_days"
    /\ pc' = "done"
    /\ UNCHANGED <<data, df>>

GetConversationStarters ==
    /\ pc = "parsed"
    /\ selected_user' = Overall
    /\ \E r \in get_conversation_starters(df) : result' = Returned(r)
    /\ op' = "get_conversation_starters"
    /\ pc' = "done"
    /\ UNCHANGED <<data, df>>

GetTopUsers ==
    /\ pc = "parsed"
    /\ selected_user' = Overall
    /\ \E r \in get_top_users(df) : result' = Returned(r)
    /\ op' = "get_top_users"
    /\ pc' = "done"
    /\ UNCHANGED <<data, df>>

GetFirstMessageDate ==
    /\ pc = "parsed"
    /\ selected_user' = Overall
    /\ result' = Returned(get_first_message_date(df))
    /\ op' = "get_first_message_date"
    /\ pc' = "done"
    /\ UNCHANGED <<data, df>>

\* app.visualize_emojis: emoji_counts = extract_emojis(user_df["Message"])
ExtractEmojis ==
    /\ pc = "parsed"
    /\ \E sel \in user_list(df) :
          /\ selected_user' = sel
          /\ result' = Returned(extract_emojis(Column(user_df_of(df, sel).rows, "Message")))
    /\ op' = "extract_emojis"
    /\ pc' = "done"
    /\ UNCHANGED <<data, df>>

Next ==
    \/ Preprocess
    \/ CalculateStatistics
    \/ AnalyzeActiveDays
    \/ GetConversationStarters
    \/ GetTopUsers
    \/ GetFirstMessageDate
    \/ ExtractEmojis

Spec == Init /\ [][Next]_vars

\* --------------------------------------------- Top Users on longer timelines
Carol == <<"Carol">>

Dave == <<"Dave">>

Erin == <<"Erin">>

Frank == <<"Frank">>

\* the senders in ascending order of name
SendersByName == <<Alice, Bob, Carol, Dave, Erin, Frank>>

NameRank(u) == CHOOSE i \in 1..Len(SendersByName) : SendersByName[i] = u

\* chats of up to MaxMsgs messages in which every sender's messages follow one
\* another, the senders in ascending or in descending order of name:
\* get_top_users reads nothing but the number of rows of each User
TopTexts ==
    {[i \in 1..Len(us) |-> MsgLine(Date_5_1_2023, Time_10_15_AM, SendersByName[us[i]], Hello)] :
        us \in {q \in SeqsUpTo(1..Len(SendersByName), MaxMsgs) :
                    \/ \A i \in 1..(Len(q) - 1) : q[i] <= q[i + 1]
                    \/ \A i \in 1..(Len(q) - 1) : q[i] >= q[i + 1]}}

InitTop ==
    /\ data \in TopTexts
    /\ df = preprocess(data)
    /\ pc = "parsed"
    /\ op = "none"
    /\ selected_user = Overall
    /\ result = Returned(<<>>)

NextTop == GetTopUsers

SpecTop == InitTop /\ [][NextTop]_vars

\* ------------------------------------------------------------------ claims
NoMatch(text) == findall(pattern_12hr, text) = <<>> /\ findall(pattern_24hr, text) = <<>>

WinningMatches(text) ==
    IF findall(pattern_12hr, text) # <<>> THEN findall(pattern_12hr, text)
    ELSE findall(pattern_24hr, text)

WinningPattern(text) ==
    IF findall(pattern_12hr, text) # <<>> THEN pattern_12hr ELSE pattern_24hr

BlankSender(user) == \A i \in 1..Len(user) : user[i] \in {" ", "\n"}

AsMatch(r) == [Date |-> r.Date, Time |-> r.Time, User |-> r.User, Message |-> r.Message]

\* C1: for a text that neither pattern matches, preprocess returns an empty
\* timeline and every metric over it returns its zero/empty default, none
\* ending in an error.
C1_EmptyTimelineDefaults ==
    (pc # "uploaded" /\ NoMatch(data)) =>
        /\ empty(df)
        /\ op \in {"calculate_statistics", "analyze_active_days",
                   "get_conversation_starters", "get_top_users",
                   "get_first_message_date", "extract_emojis"} => result.raised = ""
        /\ op = "extract_emojis" => DOMAIN result.value = {}
        /\ op = "get_conversation_starters" => result.value = <<>>
        /\ op = "get_top_users" => result.value = <<>>
        /\ op = "get_first_message_date" => result.value = <<"N/A">>
        /\ op = "analyze_active_days" =>
              \A i \in 1..7 : result.value.day_counts[i] = 0
        /\ op = "calculate_statistics" =>
              /\ result.value.Total_Messages = 0
              /\ result.value.Total_Words = 0
              /\ result.value.Media_Messages = 0
              /\ result.value.Links_Shared = 0
              /\ result.value.Longest_Message = <<>>
              /\ \A b \in {"Positive", "Negative", "Neutral"} : result.value.Sentiment[b] = 0
              /\ DOMAIN result.value.Offensive_Words = {}

NonNullRows(rows) == {i \in 1..Len(rows) : ~IsNull(rows[i].DateTime)}

DayOf(r) == ToOrdinal(Val(r.DateTime).year, Val(r.DateTime).month, Val(r.DateTime).day)

\* the pick of a sort that keeps the source order of the rows of one date
SourceOrderPick(dates) ==
    {f \in Picks(dates) : \A d \in DOMAIN f : \A j \in 1..(f[d] - 1) : dates[j] # Some(d)}

\* the results of get_conversation_starters when the sort keeps the source
\* order of the rows of one date
InSourceOrder(frame, ranking) ==
    \E mode \in ParseModes :
        \E pick \in SourceOrderPick(ParseDates(frame.rows, mode)) :
            ranking \in StarterCounts(frame.rows, pick)

\* C2: a record whose date/time fails to normalize is kept with a null
\* timestamp and null year, month, day, hour, minute; Total Messages counts it;
\* it adds to no day-of-week count and it never determines a day's starter.
C2_NullTimestampExcluded ==
    pc # "uploaded" =>
        /\ Len(df.rows) = Cardinality({i \in 1..Len(WinningMatches(data)) :
                                          ~BlankSender(WinningMatches(data)[i].User)})
        /\ \A i \in 1..Len(df.rows) :
              IsNull(df.rows[i].DateTime) =>
                  /\ IsNull(df.rows[i].year) /\ IsNull(df.rows[i].month)
                  /\ IsNull(df.rows[i].day) /\ IsNull(df.rows[i].hour)
                  /\ IsNull(df.rows[i].minute)
        /\ (op = "analyze_active_days" /\ result.raised = "") =>
              SumSeq(result.value.day_counts)
                  = Cardinality(NonNullRows(user_df_of(df, selected_user).rows))
        /\ (op = "get_conversation_starters" /\ InSourceOrder(df, result.value)) =>
              /\ SumSeq([i \in 1..Len(result.value) |-> result.value[i].Count])
                    = Cardinality({DayOf(df.rows[i]) : i \in NonNullRows(df.rows)})
              /\ \A k \in 1..Len(result.value) :
                    \E i \in NonNullRows(df.rows) : df.rows[i].User = result.value[k].User

\* the same date with its year written with four digits
FourDigitYear(date) ==
    IF date.yd = 2 THEN [date EXCEPT !.yd = 4, !.y = 2000 + date.y] ELSE date

Normalizes(date, time) ==
    ~IsNull(Strptime12(date, time)) \/ ~IsNull(Strptime24(date, time))

\* C3: a matched line with a valid day, month and time yields a record with a
\* non-null timestamp whether its year is written with 2 or with 4 digits.
C3_TwoAndFourDigitYears ==
    pc # "uploaded" =>
        \A i \in 1..Len(df.rows) :
            Normalizes(FourDigitYear(df.rows[i].Date), df.rows[i].Time)
                => ~IsNull(df.rows[i].DateTime)

RECURSIVE Continuation(_, _)
Continuation(text, j) ==
    IF j > Len(text) \/ text[j].kind # "cont" THEN <<>>
    ELSE <<"\n">> \o text[j].msg \o Continuation(text, j + 1)

\* C4: a timestamp-prefixed line followed by continuation lines is one record
\* whose body holds the text of the first line and of every continuation line.
C4_MultiLineBody ==
    pc # "uploaded" =>
        \A i \in 1..Len(data) :
            (/\ data[i].kind = "msg"
             /\ MatchesPrefix(WinningPattern(data), data[i])
             /\ ~BlankSender(data[i].user)
             /\ i < Len(data) /\ data[i + 1].kind = "cont")
            => \E k \in 1..Len(df.rows) :
                  /\ df.rows[k].Date = data[i].date /\ df.rows[k].Time = data[i].time
                  /\ df.rows[k].User = data[i].user
                  /\ df.rows[k].Message = data[i].msg \o Continuation(data, i + 1)

\* C5: First and Last Message Date are the dates of the positionally first and
\* last record of the full timeline, and both are produced for every non-empty
\* timeline, whichever sender is selected.
C5_FirstAndLastMessageDate ==
    (op = "calculate_statistics" /\ ~empty(df)) =>
        /\ result.raised = ""
        /\ result.value.First_Message_Date = Some(df.rows[1].Date)
        /\ "Last_Message_Date" \in DOMAIN result.value
        /\ result.value.Last_Message_Date = Some(df.rows[Len(df.rows)].Date)

MinuteOfDay(r) == 60 * Val(r.hour) + Val(r.minute)

\* the rows of date d, and the one of them with the earliest time of day
RowsOfDay(rows, d) == {i \in 1..Len(rows) : DayOf(rows[i]) = d}

Earliest(rows, d) ==
    CHOOSE i \in RowsOfDay(rows, d) :
        \A j \in RowsOfDay(rows, d) : MinuteOfDay(rows[i]) <= MinuteOfDay(rows[j])

CreditOf(ranking, u) ==
    SumSeq([k \in 1..Len(ranking) |-> IF ranking[k].User = u THEN ranking[k].Count ELSE 0])

\* C6: for each calendar date exactly one sender is credited, the sender of
\* the message with the earliest time of day of that date, also when the
\* records of the date are out of time order; the result is by descending count.
\* (Stated for timelines whose timestamps all normalize and whose times of
\* day differ within a date, and of the results in which the sort kept the
\* rows of one date in source order.)
C6_ChronologicallyFirstStarter ==
    (/\ op = "get_conversation_starters"
     /\ InSourceOrder(df, result.value)
     /\ NonNullRows(df.rows) = 1..Len(df.rows)
     /\ \A i, j \in 1..Len(df.rows) :
           (i # j /\ DayOf(df.rows[i]) = DayOf(df.rows[j]))
               => MinuteOfDay(df.rows[i]) # MinuteOfDay(df.rows[j]))
    => LET days == {DayOf(df.rows[i]) : i \in 1..Len(df.rows)}
       IN  /\ \A u \in {df.rows[i].User : i \in 1..Len(df.rows)} :
                 CreditOf(result.value, u)
                     = Cardinality({d \in days : df.rows[Earliest(df.rows, d)].User = u})
           /\ \A k \in 1..(Len(result.value) - 1) :
                 result.value[k].Count >= result.value[k + 1].Count

\* the row at which a User first appears
FirstRow(rows, u) == CHOOSE i \in 1..Len(rows) :
    rows[i].User = u /\ \A j \in 1..(i - 1) : rows[j].User # u

\* the ranking a sort that keeps the order of equal counts gives: value_counts
\* lists the Users in order of first appearance before it sorts
KeepsFirstAppearance(rows, ranking) ==
    \A k \in 1..(Len(ranking) - 1) :
        ranking[k].Count = ranking[k + 1].Count
            => FirstRow(rows, ranking[k].User) < FirstRow(rows, ranking[k + 1].User)

Listed(ranking) == {ranking[k].User : k \in 1..Len(ranking)}

SortedByCountThenName(ranking) ==
    \A k \in 1..(Len(ranking) - 1) :
        \/ ranking[k].Count > ranking[k + 1].Count
        \/ /\ ranking[k].Count = ranking[k + 1].Count
           /\ NameRank(ranking[k].User) < NameRank(ranking[k + 1].User)

\* C7 as claimed: at most 5 senders, the highest counts, by descending count,
\* and of two senders of one count the smaller name first, in the order and in
\* the cut at rank 5.  (Stated of the results in which the sort kept the
\* senders of one count in their order of first appearance.)
C7_TiesByName ==
    (op = "get_top_users" /\ KeepsFirstAppearance(df.rows, result.value)) =>
        LET counts == UserCounts(df.rows)
            r == result.value
        IN  /\ Len(r) <= 5
            /\ \A k \in 1..Len(r) : r[k].Count = counts[r[k].User]
            /\ SortedByCountThenName(r)
            /\ \A u \in DOMAIN counts \ Listed(r) :
                  \A k \in 1..Len(r) :
                      \/ counts[u] < r[k].Count
                      \/ counts[u] = r[k].Count /\ NameRank(r[k].User) < NameRank(u)

\* C7 as amended: min(5, number of senders) distinct senders, each with its
\* message count, by descending count, no sender left out having more messages
\* than one listed; the order among senders of one count is not fixed.
C7_TopFiveByCount ==
    op = "get_top_users" =>
        LET counts == UserCounts(df.rows)
            r == result.value
            n == Cardinality(DOMAIN counts)
        IN  /\ Len(r) = IF n < 5 THEN n ELSE 5
            /\ Cardinality(Listed(r)) = Len(r)
            /\ \A k \in 1..Len(r) : r[k].User \in DOMAIN counts /\ r[k].Count = counts[r[k].User]
            /\ \A k \in 1..(Len(r) - 1) : r[k].Count >= r[k + 1].Count
            /\ \A u \in DOMAIN counts \ Listed(r) :
                  \A k \in 1..Len(r) : counts[u] <= r[k].Count

\* six senders, two of them of one count on either side of the cut at rank 5
C7_Witness ==
    /\ op = "get_top_users"
    /\ Cardinality({df.rows[i].User : i \in 1..Len(df.rows)}) = 6
    /\ Len(result.value) = 5
    /\ \E u \in {df.rows[i].User : i \in 1..Len(df.rows)} \ Listed(result.value) :
          UserCounts(df.rows)[u] = result.value[5].Count

\* C8: for every non-empty subset the seven percentages are defined and sum
\* to 100.00 within the rounding tolerance (seven roundings of at most 0.005),
\* also when some or all records have a null timestamp.
C8_PercentagesSumTo100 ==
    (op = "analyze_active_days" /\ ~empty(user_df_of(df, selected_user))) =>
        /\ result.raised = ""
        /\ \A i \in 1..7 : ~IsNull(result.value.day_percentages[i])
        /\ LET total == SumSeq([i \in 1..7 |-> Val(result.value.day_percentages[i])])
           IN  total - 10000 <= 3 /\ 10000 - total <= 3

\* C9: of the N matches of the winning pattern, K with a sender empty after
\* trimming, preprocess returns exactly the N-K others in source order, and
\* every returned sender is non-empty after trimming.
C9_BlankSendersDropped ==
    pc # "uploaded" =>
        LET m == WinningMatches(data)
            NotBlank(x) == ~BlankSender(x.User)
            K == Cardinality({i \in 1..Len(m) : BlankSender(m[i].User)})
        IN  /\ Len(df.rows) = Len(m) - K
            /\ [i \in 1..Len(df.rows) |-> AsMatch(df.rows[i])] = SelectSeq(m, NotBlank)
            /\ \A i \in 1..Len(df.rows) :
                  \E k \in 1..Len(df.rows[i].User) : df.rows[i].User[k] \notin {" ", "\n"}

\* a parse that dropped a blank sender and kept another record
C9_Witness ==
    /\ pc # "uploaded"
    /\ \E i \in 1..Len(WinningMatches(data)) : BlankSender(WinningMatches(data)[i].User)
    /\ Len(df.rows) >= 1

\* C10: if the 12-hour pattern matches a line, every record is a 12-hour match
\* normalized with the 12-hour format and the lines only the 24-hour pattern
\* matches give no record; the 24-hour pattern and format are used only when
\* the 12-hour pattern matches nothing.
C10_OneTimestampFormat ==
    pc # "uploaded" =>
        IF findall(pattern_12hr, data) # <<>>
        THEN /\ \A i \in 1..Len(df.rows) :
                   /\ AsMatch(df.rows[i]) \in Range(findall(pattern_12hr, data))
                   /\ AsMatch(df.rows[i]) \notin Range(findall(pattern_24hr, data))
                   /\ df.rows[i].Time.mer # ""
                   /\ df.rows[i].DateTime = Strptime12(df.rows[i].Date, df.rows[i].Time)
        ELSE /\ \A i \in 1..Len(df.rows) :
                   /\ AsMatch(df.rows[i]) \in Range(findall(pattern_24hr, data))
                   /\ df.rows[i].Time.mer = ""
                   /\ df.rows[i].DateTime = Strptime24(df.rows[i].Date, df.rows[i].Time)

\* a text with a 12-hour line and a 24-hour line, parsed into a record
C10_Witness ==
    /\ pc # "uploaded"
    /\ findall(pattern_12hr, data) # <<>>
    /\ findall(pattern_24hr, data) # <<>>
    /\ Len(df.rows) >= 1
    /\ ~IsNull(df.rows[1].DateTime)

====
